---- MODULE Spec2Model ----
(***************************************************************************)
(* Model of scripts/mitmproxy-addon.py: the request() hook that routes UI  *)
(* paths of the CloudFront domain to the local server, and the response()  *)
(* hook that replicates the production security headers on locally routed  *)
(* flows.  Strings that the code inspects by prefix (paths) are sequences  *)
(* of characters; header collections are ordered sequences of             *)
(* <<name, value>> fields with case-insensitive names, as mitmproxy's      *)
(* Headers multidict keeps them.                                           *)
(***************************************************************************)
EXTENDS Integers, Sequences, FiniteSets, TLC

\* ------------------------------------------------------------------ bounds
NumFlows == 2
MaxResponses == 2
MaxReqHeaders == 2
MaxRespHeaders == 2

\* ------------------------------------------------- configuration constants
CLOUDFRONT_DOMAIN == "ndx.digital.cabinet-office.gov.uk"
LOCAL_SERVER_HOST == "localhost"
LOCAL_SERVER_PORT == 8080

CSP_VALUE == "upgrade-insecure-requests; default-src 'none'; object-src 'none'; script-src 'self'; style-src 'self'; img-src 'self' data:; font-src 'self' data:; connect-src 'self'; manifest-src 'self'; frame-ancestors 'none'; base-uri 'none';"

\* dict in insertion order: <<name, value>> pairs
SECURITY_HEADERS ==
    << <<"content-security-policy", CSP_VALUE>>,
       <<"x-frame-options", "DENY">>,
       <<"x-content-type-options", "nosniff">>,
       <<"referrer-policy", "no-referrer">> >>

UI_ROUTES ==
    << <<"/">>,
       <<"/", "c", "a", "t", "a", "l", "o", "g", "u", "e">>,
       <<"/", "c", "a", "t", "a", "l", "o", "g", "u", "e", "/">>,
       <<"/", "t", "r", "y">>,
       <<"/", "a", "s", "s", "e", "t", "s", "/">> >>

API_PREFIX == <<"/", "a", "p", "i", "/">>

\* ------------------------------------------------------- string operations
\* str.startswith
StartsWith(s, prefix) ==
    /\ Len(prefix) <= Len(s)
    /\ SubSeq(s, 1, Len(prefix)) = prefix

\* str.lower on the header names that occur
Lower(name) ==
    CASE name = "Host" -> "host"
      [] name = "Cookie" -> "cookie"
      [] name = "Content-Security-Policy" -> "content-security-policy"
      [] name = "X-Frame-Options" -> "x-frame-options"
      [] name = "Content-Type" -> "content-type"
      [] OTHER -> name

\* A header value is a sequence of parts; joining values with ", " is
\* concatenation of their parts.  A part [h, p] reads "h" when p = 0 and
\* "h:p" otherwise.
Str(h) == << [h |-> h, p |-> 0] >>
StrPort(h, p) == << [h |-> h, p |-> p] >>

\* ------------------------------------------------ Headers (case-insensitive)
RECURSIVE JoinValues(_)
JoinValues(vals) ==
    IF vals = <<>> THEN <<>> ELSE Head(vals) \o JoinValues(Tail(vals))

Matches(field, key) == Lower(field[1]) = Lower(key)

MatchIdx(fields, key) == {i \in 1..Len(fields) : Matches(fields[i], key)}

Contains(fields, key) == MatchIdx(fields, key) # {}

\* Headers.get_all: the values of every field named key, in order
GetAll(fields, key) ==
    LET hit(f) == Matches(f, key)
        sel == SelectSeq(fields, hit)
    IN [i \in 1..Len(sel) |-> sel[i][2]]

\* Headers.get(key, default): the values joined, or the default
Get(fields, key, default) ==
    IF Contains(fields, key) THEN JoinValues(GetAll(fields, key)) ELSE default

\* a plausible slip: add a field instead of replacing the existing ones
SetItem_append(fields, key, value) == Append(fields, <<key, value>>)

\* a plausible slip: keep the existing value when the header is present
SetItem_setdefault(fields, key, value) ==
    IF Contains(fields, key) THEN fields ELSE Append(fields, <<key, value>>)

\* Headers.__setitem__ = set_all(key, [value]): the first field named key
\* keeps its name and takes the value, later ones are dropped; with no such
\* field, <<key, value>> is appended.
SetItem(fields, key, value) ==
    IF ~Contains(fields, key)
    THEN Append(fields, <<key, value>>)
    ELSE LET first == CHOOSE i \in MatchIdx(fields, key) :
                          \A j \in MatchIdx(fields, key) : i <= j
             other(f) == ~Matches(f, key)
         IN SubSeq(fields, 1, first - 1)
              \o << <<fields[first][1], value>> >>
              \o SelectSeq(SubSeq(fields, first + 1, Len(fields)), other)

\* ------------------------------------------------------ Request properties
NoAuthority == <<>>

\* url.parse_authority(authority, check=False)[0]: the host of "host" or
\* "host:port"; any other text comes back whole and is no host name.
ParseAuthorityHost(v) == IF Len(v) = 1 THEN v[1].h ELSE "(unparsed)"

\* Request.host_header
HostHeader(r) ==
    IF r.http2 /\ r.authority # NoAuthority
    THEN r.authority
    ELSE Get(r.headers, "Host", <<>>)

\* Request.pretty_host: the Host header (or :authority) is preferred to host
PrettyHost(r) ==
    IF HostHeader(r) # <<>> THEN ParseAuthorityHost(HostHeader(r)) ELSE r.host

DefaultPort(scheme) == IF scheme = "https" THEN 443 ELSE 80

\* url.hostport
HostPort(scheme, host, port) ==
    IF DefaultPort(scheme) = port THEN Str(host) ELSE StrPort(host, port)

\* Request._update_host_and_authority, run by the host and port setters
UpdateHostAndAuthority(r) ==
    LET val == HostPort(r.scheme, r.host, r.port)
    IN [r EXCEPT !.headers = IF Contains(@, "Host")
                             THEN SetItem(@, "Host", val) ELSE @,
                 !.authority = IF @ # NoAuthority THEN val ELSE @]

SetScheme(r, s) == [r EXCEPT !.scheme = s]
SetHost(r, h) == UpdateHostAndAuthority([r EXCEPT !.host = h])
SetPort(r, p) == UpdateHostAndAuthority([r EXCEPT !.port = p])

\* ------------------------------------------------------------ request hook
IsApiRoute(path) == StartsWith(path, API_PREFIX)

\* a plausible slip: exact match only
IsUiRoute_exact(path) == \E i \in 1..Len(UI_ROUTES) : UI_ROUTES[i] = path

\* the is_ui_route loop
IsUiRoute(path) ==
    \E i \in 1..Len(UI_ROUTES) :
        UI_ROUTES[i] = path \/ StartsWith(path, UI_ROUTES[i])

\* a plausible slip: the Host header is not restored after the setters
RouteToLocal_norestore(r) ==
    SetPort(SetHost(SetScheme(r, "http"), LOCAL_SERVER_HOST), LOCAL_SERVER_PORT)

\* the body of the UI branch acting on flow.request
RouteToLocal(r) ==
    LET original_host == Get(r.headers, "Host", Str(CLOUDFRONT_DOMAIN))
        r1 == SetScheme(r, "http")
        r2 == SetHost(r1, LOCAL_SERVER_HOST)
        r3 == SetPort(r2, LOCAL_SERVER_PORT)
    IN [r3 EXCEPT !.headers = SetItem(@, "Host", original_host)]

Passed(fl, lines) == [flow |-> fl, log |-> lines]

\* a plausible slip: the UI table is consulted before the /api/ prefix
request_uifirst(fl) ==
    IF PrettyHost(fl.request) # CLOUDFRONT_DOMAIN
    THEN Passed(fl, <<>>)
    ELSE IF IsUiRoute(fl.request.path)
    THEN Passed([fl EXCEPT !.request = RouteToLocal(@),
                           !.metadata.locally_routed = TRUE], <<"UI Route">>)
    ELSE IF IsApiRoute(fl.request.path)
    THEN Passed(fl, <<"API Route">>)
    ELSE Passed(fl, <<"Passthrough">>)

\* a plausible slip: the domain check is left out
request_anydomain(fl) ==
    IF IsApiRoute(fl.request.path)
    THEN Passed(fl, <<"API Route">>)
    ELSE IF IsUiRoute(fl.request.path)
    THEN Passed([fl EXCEPT !.request = RouteToLocal(@),
                           !.metadata.locally_routed = TRUE], <<"UI Route">>)
    ELSE Passed(fl, <<"Passthrough">>)

\* a plausible slip: every non-API path of the domain goes to the local server
request_nouitest(fl) ==
    IF PrettyHost(fl.request) # CLOUDFRONT_DOMAIN
    THEN Passed(fl, <<>>)
    ELSE IF IsApiRoute(fl.request.path)
    THEN Passed(fl, <<"API Route">>)
    ELSE Passed([fl EXCEPT !.request = RouteToLocal(@),
                           !.metadata.locally_routed = TRUE], <<"UI Route">>)

\* request(flow): the flow as the hook leaves it and the log lines it emits
request(fl) ==
    IF PrettyHost(fl.request) # CLOUDFRONT_DOMAIN
    THEN Passed(fl, <<>>)
    ELSE IF IsApiRoute(fl.request.path)
    THEN Passed(fl, <<"API Route">>)
    ELSE IF IsUiRoute(fl.request.path)
    THEN Passed([fl EXCEPT !.request = RouteToLocal(@),
                           !.metadata.locally_routed = TRUE], <<"UI Route">>)
    ELSE Passed(fl, <<"Passthrough">>)

\* ----------------------------------------------------------- response hook
RECURSIVE InjectFrom(_, _)
InjectFrom(fields, i) ==
    IF i > Len(SECURITY_HEADERS) THEN fields
    ELSE InjectFrom(SetItem(fields, SECURITY_HEADERS[i][1], SECURITY_HEADERS[i][2]),
                    i + 1)

\* the loop over SECURITY_HEADERS.items()
InjectSecurityHeaders(fields) == InjectFrom(fields, 1)

\* a plausible slip: the locally_routed test is left out
response_unguarded(fl) ==
    [fl EXCEPT !.response.headers = InjectSecurityHeaders(@)]

\* a plausible slip: the marker is consumed (metadata.pop) by the hook
response_pop(fl) ==
    IF ~fl.metadata.locally_routed
    THEN fl
    ELSE [fl EXCEPT !.response.headers = InjectSecurityHeaders(@),
                    !.metadata.locally_routed = FALSE]

\* response(flow); logging.debug is below the configured INFO level
response(fl) ==
    IF ~fl.metadata.locally_routed
    THEN fl
    ELSE [fl EXCEPT !.response.headers = InjectSecurityHeaders(@)]

\* ------------------------------------------------------------------- inputs
OTHER_DOMAIN == "other.example.com"

PathHome == <<"/">>
PathWidgets == <<"/", "c", "a", "t", "a", "l", "o", "g", "u", "e", "/", "w", "i", "d", "g", "e", "t", "s">>
PathApiSessions == <<"/", "a", "p", "i", "/", "v", "1", "/", "s", "e", "s", "s", "i", "o", "n", "s">>
PathApiBare == <<"/", "a", "p", "i">>
PathCallback == <<"/", "c", "a", "l", "l", "b", "a", "c", "k", "?", "c", "o", "d", "e", "=", "a", "b", "c">>
PathStar == <<"*">>

Paths == {PathHome, PathWidgets, PathApiSessions, PathApiBare, PathCallback, PathStar}

SeqsUpTo(S, n) == UNION {[1..k -> S] : k \in 0..n}

ReqFields ==
    { <<"Host", Str(CLOUDFRONT_DOMAIN)>>,
      <<"host", Str(OTHER_DOMAIN)>>,
      <<"Host", StrPort(CLOUDFRONT_DOMAIN, 443)>>,
      <<"Cookie", Str("sid=1")>> }

RespFields ==
    { <<"Content-Security-Policy", "default-src *">>,
      <<"x-frame-options", "SAMEORIGIN">>,
      <<"Content-Type", "text/html">> }

\* how the request reached the proxy: HTTP/1 origin form, HTTP/1 absolute
\* form (authority filled in) and HTTP/2 (:authority pseudo-header)
Connections ==
    { [http2 |-> FALSE, host |-> CLOUDFRONT_DOMAIN, authority |-> NoAuthority],
      [http2 |-> FALSE, host |-> OTHER_DOMAIN, authority |-> NoAuthority],
      [http2 |-> FALSE, host |-> CLOUDFRONT_DOMAIN, authority |-> Str(CLOUDFRONT_DOMAIN)],
      [http2 |-> TRUE, host |-> CLOUDFRONT_DOMAIN, authority |-> Str(CLOUDFRONT_DOMAIN)],
      [http2 |-> TRUE, host |-> OTHER_DOMAIN, authority |-> Str(OTHER_DOMAIN)] }

\* the scheme and port the client addressed (CloudFront is served over HTTPS)
Origins == {[scheme |-> "https", port |-> 443]}

NewRequest(c, o, path, headers) ==
    [scheme |-> o.scheme, host |-> c.host, port |-> o.port, path |-> path,
     headers |-> headers, authority |-> c.authority, http2 |-> c.http2]

Requests ==
    {NewRequest(c, o, p, h) : c \in Connections, o \in Origins, p \in Paths,
                              h \in SeqsUpTo(ReqFields, MaxReqHeaders)}

ResponseHeaders == SeqsUpTo(RespFields, MaxRespHeaders)

\* the inputs of the several-flows specification
FewRequests ==
    {NewRequest(c, [scheme |-> "https", port |-> 443], p, << <<"Host", Str(c.host)>> >>) :
        c \in {x \in Connections : ~x.http2 /\ x.authority = NoAuthority},
        p \in {PathWidgets, PathApiSessions, PathStar}}

FewResponseHeaders == SeqsUpTo({<<"Content-Security-Policy", "default-src *">>}, 1)

NoResponse == [present |-> FALSE, headers |-> <<>>]

\* an HTTPFlow as the proxy hands it to the request hook
NewFlow(r) ==
    [request |-> r, response |-> NoResponse,
     metadata |-> [locally_routed |-> FALSE]]

\* -------------------------------------------------------------------- state
VARIABLES flows, phase, calls, inbound, upstream, logged

vars == <<flows, phase, calls, inbound, upstream, logged>>

Ids == DOMAIN flows

InitWith(ids, reqs) ==
    /\ inbound \in [ids -> reqs]
    /\ flows = [f \in ids |-> NewFlow(inbound[f])]
    /\ phase = [f \in ids |-> "request"]
    /\ calls = [f \in ids |-> 0]
    /\ upstream = [f \in ids |-> <<>>]
    /\ logged = [f \in ids |-> <<>>]

Init == InitWith({1}, Requests)

InitFlows == InitWith(1..NumFlows, FewRequests)

\* the proxy runs the request hook on a new flow
OnRequest(f) ==
    /\ phase[f] = "request"
    /\ flows' = [flows EXCEPT ![f] = request(@).flow]
    /\ logged' = [logged EXCEPT ![f] = @ \o request(flows[f]).log]
    /\ phase' = [phase EXCEPT ![f] = "upstream"]
    /\ UNCHANGED <<calls, inbound, upstream>>

\* the upstream server (local or CloudFront) answers
Upstream(f, headers) ==
    /\ phase[f] = "upstream"
    /\ flows' = [flows EXCEPT ![f].response = [present |-> TRUE, headers |-> headers]]
    /\ upstream' = [upstream EXCEPT ![f] = headers]
    /\ phase' = [phase EXCEPT ![f] = "response"]
    /\ UNCHANGED <<calls, inbound, logged>>

\* a plausible slip: the marker is module-level state shared by all flows
OnResponse_shared(f) ==
    /\ phase[f] = "response"
    /\ calls[f] < MaxResponses
    /\ flows' = [flows EXCEPT ![f] =
                    IF \E g \in Ids : flows[g].metadata.locally_routed
                    THEN response([@ EXCEPT !.metadata.locally_routed = TRUE])
                    ELSE response(@)]
    /\ calls' = [calls EXCEPT ![f] = @ + 1]
    /\ UNCHANGED <<phase, inbound, upstream, logged>>

\* the proxy runs the response hook
OnResponse(f) ==
    /\ phase[f] = "response"
    /\ calls[f] < MaxResponses
    /\ flows' = [flows EXCEPT ![f] = response(@)]
    /\ calls' = [calls EXCEPT ![f] = @ + 1]
    /\ UNCHANGED <<phase, inbound, upstream, logged>>

Next ==
    \E f \in Ids :
        \/ OnRequest(f)
        \/ \E h \in ResponseHeaders : Upstream(f, h)
        \/ OnResponse(f)

NextFlows ==
    \E f \in Ids :
        \/ OnRequest(f)
        \/ \E h \in FewResponseHeaders : Upstream(f, h)
        \/ OnResponse(f)

Spec == Init /\ [][Next]_vars

SpecFlows == InitFlows /\ [][NextFlows]_vars

TypeOK ==
    /\ \A f \in Ids : phase[f] \in {"request", "upstream", "response"}
    /\ \A f \in Ids : calls[f] \in 0..MaxResponses

\* --------------------------------------------------------- derived notions
\* the routing decisions recorded for a flow: the locally_routed marker of
\* the UI branch, and the log line of each pass-through branch
Tags(f) ==
    {t \in {"RoutedToLocal"} : flows[f].metadata.locally_routed}
    \cup {t \in {"PassthroughApi"} :
            \E i \in 1..Len(logged[f]) : logged[f][i] = "API Route"}
    \cup {t \in {"PassthroughOther"} :
            \E i \in 1..Len(logged[f]) : logged[f][i] = "Passthrough"}

Decision(f) == IF Tags(f) = {} THEN "Unset" ELSE CHOOSE t \in Tags(f) : TRUE

RequestDone(f) == phase[f] # "request"

\* the target host the hook tests is pretty_host of the request as received
InDomain(f) == PrettyHost(inbound[f]) = CLOUDFRONT_DOMAIN

\* scheme, host, port, path, headers (and authority) as received
Unmodified(f) == flows[f].request = inbound[f]

RoutedLocally(f) ==
    /\ flows[f].request.scheme = "http"
    /\ flows[f].request.host = LOCAL_SERVER_HOST
    /\ flows[f].request.port = LOCAL_SERVER_PORT

SecurityNames == {SECURITY_HEADERS[i][1] : i \in 1..Len(SECURITY_HEADERS)}

IsSecurityField(field) == \E n \in SecurityNames : Matches(field, n)

OtherFields(fields) ==
    LET keep(fd) == ~IsSecurityField(fd) IN SelectSeq(fields, keep)

\* every SECURITY_HEADERS entry is present once, with the configured value
HasSecurityHeaders(fields) ==
    \A i \in 1..Len(SECURITY_HEADERS) :
        GetAll(fields, SECURITY_HEADERS[i][1]) = <<SECURITY_HEADERS[i][2]>>

C2_CallbackPassthrough ==
    \A f \in Ids :
        (RequestDone(f) /\ InDomain(f) /\ inbound[f].path = PathCallback)
        => Unmodified(f) /\ Decision(f) = "PassthroughOther"

\* C3: a request of the production domain whose path starts with /api/ is
\* left unmodified and marked PassthroughApi, also when the path matches a
\* UI_ROUTES entry by prefix.
C3_ApiPassthrough ==
    \A f \in Ids :
        (RequestDone(f) /\ InDomain(f) /\ IsApiRoute(inbound[f].path))
        => Unmodified(f) /\ Decision(f) = "PassthroughApi"

C3_Witness ==
    \E f \in Ids :
        /\ RequestDone(f)
        /\ InDomain(f)
        /\ inbound[f].path = PathApiSessions
        /\ IsUiRoute(inbound[f].path)
        /\ logged[f] = <<"API Route">>

\* C4: a request whose target host is not the production domain is left
\* unmodified and gets no decision tag, whatever its path and headers.
C4_OtherDomainUntouched ==
    \A f \in Ids :
        (RequestDone(f) /\ ~InDomain(f))
        => Unmodified(f) /\ Decision(f) = "Unset"

C4_Witness ==
    \E f \in Ids :
        /\ RequestDone(f)
        /\ ~InDomain(f)
        /\ inbound[f].host = OTHER_DOMAIN
        /\ inbound[f].path = PathHome
        /\ inbound[f].headers # <<>>
        /\ Unmodified(f)

\* C5: a request of the production domain whose path is neither under /api/
\* nor equal to or prefixed by a UI_ROUTES entry is left unmodified and
\* marked PassthroughOther.
C5_OtherPassthrough ==
    \A f \in Ids :
        (/\ RequestDone(f)
         /\ InDomain(f)
         /\ ~IsApiRoute(inbound[f].path)
         /\ ~IsUiRoute(inbound[f].path))
        => Unmodified(f) /\ Decision(f) = "PassthroughOther"

C5_Witness ==
    \E f \in Ids :
        /\ RequestDone(f)
        /\ InDomain(f)
        /\ inbound[f].path = PathStar
        /\ logged[f] = <<"Passthrough">>

\* C6: after the request phase a flow of the production domain carries
\* exactly one decision tag and any other flow none; no later callback
\* changes the tags of a flow.
C6_DecisionSetOnce ==
    /\ [](\A f \in Ids :
            /\ ~RequestDone(f) => Tags(f) = {}
            /\ RequestDone(f) =>
                 Cardinality(Tags(f)) = (IF InDomain(f) THEN 1 ELSE 0))
    /\ [][\A f \in Ids : RequestDone(f) => Tags(f)' = Tags(f)]_vars

C6_Witness ==
    \E f \in Ids :
        /\ calls[f] >= 1
        /\ InDomain(f)
        /\ Tags(f) = {"RoutedToLocal"}

\* C7: after the response hook on a RoutedToLocal flow every SECURITY_HEADERS
\* entry is present exactly once with the configured value, whether the
\* upstream response had it with another value or not at all, and the other
\* response headers are as the upstream sent them.
C7_SecurityHeadersOverwritten ==
    \A f \in Ids :
        (calls[f] >= 1 /\ Decision(f) = "RoutedToLocal")
        => /\ HasSecurityHeaders(flows[f].response.headers)
           /\ OtherFields(flows[f].response.headers) = OtherFields(upstream[f])

C7_Witness ==
    \E f \in Ids :
        /\ calls[f] >= 1
        /\ Decision(f) = "RoutedToLocal"
        /\ GetAll(upstream[f], "content-security-policy") = <<"default-src *">>
        /\ ~Contains(upstream[f], "x-frame-options")
        /\ OtherFields(upstream[f]) # <<>>

\* C8: the response hook on a flow whose decision is PassthroughApi,
\* PassthroughOther or unset leaves the response headers as they arrived.
C8_PassthroughResponseUntouched ==
    \A f \in Ids :
        (calls[f] >= 1
           /\ Decision(f) \in {"PassthroughApi", "PassthroughOther", "Unset"})
        => flows[f].response.headers = upstream[f]

C8_Witness ==
    \E f \in Ids :
        /\ calls[f] >= 1
        /\ Decision(f) = "PassthroughOther"
        /\ upstream[f] # <<>>
        /\ ~HasSecurityHeaders(upstream[f])

\* C9: on a RoutedToLocal flow a second (or later) run of the response hook
\* leaves the response headers as the first run left them.
C9_ResponseIdempotent ==
    [][\A f \in Ids :
          (/\ calls[f] >= 1
           /\ calls'[f] = calls[f] + 1
           /\ Decision(f) = "RoutedToLocal")
          => flows'[f].response.headers = flows[f].response.headers]_vars

C9_Witness ==
    \E f \in Ids :
        /\ calls[f] = 2
        /\ Decision(f) = "RoutedToLocal"
        /\ upstream[f] # <<>>
        /\ flows[f].response.headers # upstream[f]

\* C10: with several flows in flight, a flow's response carries the security
\* headers after its response hook exactly when its own request was sent to
\* the local server (otherwise the response is as it arrived), and a
\* callback on one flow changes no other flow.
C10_PerFlowCoupling ==
    /\ [](\A f \in Ids :
            calls[f] >= 1 =>
              /\ HasSecurityHeaders(flows[f].response.headers) <=> RoutedLocally(f)
              /\ ~RoutedLocally(f) => flows[f].response.headers = upstream[f])
    /\ [][\A f \in Ids :
            (phase'[f] = phase[f] /\ calls'[f] = calls[f])
            => (flows'[f] = flows[f] /\ logged'[f] = logged[f])]_vars

C10_Witness ==
    \E f, g \in Ids :
        /\ calls[f] >= 1 /\ calls[g] >= 1
        /\ RoutedLocally(f) /\ HasSecurityHeaders(flows[f].response.headers)
        /\ InDomain(g) /\ ~RoutedLocally(g)
        /\ upstream[g] # <<>> /\ flows[g].response.headers = upstream[g]

====
